---- MODULE Spec2Model ----
\* A model of vulkano's StorageImage (src/vulkano/src/image/storage.rs):
\* its four constructors, the operations on a bound image, and the
\* collaborators they call (device, RawImage, MemoryAllocator, ImageView),
\* whose answers are nondeterministic choices made at the call site.
EXTENDS Integers, Sequences, FiniteSets, TLC

VARIABLES
    debug_assertions,   \* build configuration: are debug_assert!s compiled in
    images,             \* handles of the raw images that are live on the device
    allocations,        \* ids of the memory allocations that are live
    resources,          \* the StorageImages the caller owns (directly or through a view)
    last                \* the call that just returned (arguments, collaborator
                        \* calls, result), until the caller goes on

vars == <<debug_assertions, images, allocations, resources, last>>

-----------------------------------------------------------------------------
\* Bounds of the model.

\* At most this many StorageImages are alive at once.
MaxLive == 2
\* Queue-family index lists have at most this many entries.
MaxQfiLen == 2

-----------------------------------------------------------------------------
\* Input domains.

QueueFamilies == {0, 1}

QfiInputs == UNION {[1..n -> QueueFamilies] : n \in 0..MaxQfiLen}

Dim2d(w, h, layers) ==
    [type |-> "Dim2d", width |-> w, height |-> h, array_layers |-> layers]

DimensionInputs == {Dim2d(32, 32, 1), Dim2d(8, 4, 2)}

SizeInputs == {<<32, 32>>, <<8, 4>>}

FormatInputs == {"R8G8B8A8_UNORM", "D16_UNORM", "S8_UINT", "BC7_UNORM_BLOCK"}

UsageInputs ==
    { {"TRANSFER_SRC"},
      {"TRANSFER_SRC", "TRANSFER_DST", "COLOR_ATTACHMENT"} }

FlagInputs == { {}, {"DISJOINT"} }

\* Format::aspects
aspects(format) ==
    CASE format = "D16_UNORM" -> {"DEPTH"}
      [] format = "S8_UINT" -> {"STENCIL"}
      [] OTHER -> {"COLOR"}

\* Format::compression, as an Option
compression(format) ==
    IF format = "BC7_UNORM_BLOCK" THEN {"BC"} ELSE {}

\* ImageDimensions::array_layers
array_layers(dimensions) == dimensions.array_layers

-----------------------------------------------------------------------------
\* Collaborator answers.

\* RawImage::memory_requirements()[0]
RequirementInputs ==
    { [size |-> 8, alignment |-> 4, memory_type_bits |-> {0, 1}] }

\* The memory types of the device that may be device-local: none of them,
\* or any set of them.
DeviceLocalInputs == SUBSET {0, 1}

\* MemoryAllocator::find_memory_type_index with the GpuOnly filter: the
\* first device-local type among the admissible ones, as an Option.
find_memory_type_index(memory_type_bits, device_local) ==
    LET ok == memory_type_bits \cap device_local
    IN  IF ok = {} THEN {} ELSE {CHOOSE i \in ok : \A j \in ok : i <= j}

\* What an allocator may hand back for a request: a well-placed
\* allocation, a misaligned one, or one of the wrong size.
AllocationAnswers(req) ==
    { [offset |-> 0, size |-> req.size],
      [offset |-> 1, size |-> req.size],
      [offset |-> 0, size |-> req.size + 1] }

AllocationErrors == {"OutOfDeviceMemory"}

\* The usages one of which an image needs for a default view.
ViewUsages ==
    {"SAMPLED", "STORAGE", "COLOR_ATTACHMENT", "DEPTH_STENCIL_ATTACHMENT",
     "INPUT_ATTACHMENT", "TRANSIENT_ATTACHMENT"}

\* ImageView::new_default: the results it can give for an image of this usage.
new_default(usage) ==
    IF usage \cap ViewUsages = {}
    THEN {[kind |-> "Err", error |-> "ImageMissingUsage"]}
    ELSE {[kind |-> "Ok", error |-> ""],
          [kind |-> "Err", error |-> "OomError"]}

\* From<AllocationCreationError> for ImageError
ImageErrorFrom(cause) == [variant |-> "AllocError", cause |-> cause]

\* A handle or id not in use.
Fresh(used) == CHOOSE h \in 1..(Cardinality(used) + 1) : h \notin used

-----------------------------------------------------------------------------
\* Results and call records.

Ok(value) == [kind |-> "Ok", value |-> value, error |-> [variant |-> "", cause |-> ""]]
Err(error) == [kind |-> "Err", value |-> 0, error |-> error]
Panic(message) ==
    [kind |-> "Panic", value |-> 0, error |-> [variant |-> "panic", cause |-> message]]

NoArgs ==
    [dimensions |-> Dim2d(0, 0, 0), format |-> "", usage |-> {}, flags |-> {},
     queue_family_indices |-> <<>>, size |-> <<>>, queue |-> {}]

Args(dimensions, format, usage, flags, qfi) ==
    [NoArgs EXCEPT !.dimensions = dimensions, !.format = format, !.usage = usage,
                   !.flags = flags, !.queue_family_indices = qfi]

\* The arguments of general_purpose_image_view.
ViewArgs(queue, size, format, usage) ==
    [NoArgs EXCEPT !.queue = {queue}, !.size = size, !.format = format,
                   !.usage = usage]

\* A call that has touched no collaborator yet. Optional values are sets
\* of at most one element.
Start(op, args) ==
    [op |-> op, args |-> args, events |-> <<>>, query |-> {}, create_info |-> {},
     requirements |-> {}, request |-> {}, allocation |-> {},
     image |-> {}, memory |-> {}, self |-> {}, answer |-> {},
     exportable |-> {}, device_local |-> {},
     result |-> Panic("")]

Did(c, event) == [c EXCEPT !.events = Append(@, event)]

Init ==
    /\ debug_assertions \in BOOLEAN
    /\ images = {}
    /\ allocations = {}
    /\ resources = {}
    /\ last = Start("none", NoArgs)

-----------------------------------------------------------------------------
\* Construction.

\* The call returns: `c` is what it did, `made` the StorageImage handed to
\* the caller (none on failure), `liveImages` and `liveAllocations` what the
\* call created and did not release.
Return(c, made, liveImages, liveAllocations) ==
    /\ last' = c
    /\ resources' = resources \cup made
    /\ images' = images \cup liveImages
    /\ allocations' = allocations \cup liveAllocations
    /\ UNCHANGED debug_assertions

\* StorageImage { inner }: the bound image, its allocation, and what later
\* calls read of them.
StorageImage(c, raw_image, memory, viewed) ==
    [image |-> raw_image, memory |-> memory,
     array_layers |-> array_layers((CHOOSE i \in c.create_info : TRUE).dimensions),
     handle_types |-> (CHOOSE i \in c.create_info : TRUE).external_memory_handle_types,
     view |-> viewed]

\* Mutant: the view error is returned as a generic error.
view_error_generic(e) == [variant |-> "ImageViewCreationFailed", cause |-> ""]

\* general_purpose_image_view's wrapping of a view-creation error
view_error(e) == [variant |-> "DirectImageViewCreationFailed", cause |-> e]

\* general_purpose_image_view, lines 235-244: the match on with_usage's result
match_image_result(c, made, liveImages, liveAllocations) ==
    IF c.result.kind = "Ok"
    THEN \E v \in new_default(c.args.usage) :
            IF v.kind = "Ok"
            THEN Return(Did(c, "ImageView::new_default"),
                        {[r EXCEPT !.view = TRUE] : r \in made},
                        liveImages, liveAllocations)
            ELSE Return([Did(c, "ImageView::new_default") EXCEPT
                            !.result = Err(view_error(v.error))],
                        {}, {}, {})
    ELSE Return(c, made, liveImages, liveAllocations)

\* with_usage hands its result to whoever called it.
ReturnToCaller(c, made, liveImages, liveAllocations) ==
    IF c.op = "general_purpose_image_view"
    THEN match_image_result(c, made, liveImages, liveAllocations)
    ELSE Return(c, made, liveImages, liveAllocations)

\* Mutant: the assertion is missing.
assert_not_disjoint_missing(flags) == TRUE

\* assert!(!flags.intersects(ImageCreateFlags::DISJOINT))
assert_not_disjoint(flags) == flags \cap {"DISJOINT"} = {}

\* The sharing mode chosen from the queue-family index list.
sharing(queue_family_indices) ==
    IF Len(queue_family_indices) >= 2
    THEN [mode |-> "Concurrent", queue_family_indices |-> queue_family_indices]
    ELSE [mode |-> "Exclusive", queue_family_indices |-> <<>>]

ImageCreateInfo(flags, dimensions, format, usage, qfi, handle_types) ==
    [flags |-> flags, dimensions |-> dimensions, format |-> format, usage |-> usage,
     sharing |-> sharing(qfi), external_memory_handle_types |-> handle_types]

AllocationCreateInfo(requirements, raw_image) ==
    [call |-> "allocate_unchecked", requirements |-> requirements,
     allocation_type |-> "NonLinear", usage |-> "GpuOnly",
     allocate_preference |-> "Unknown", dedicated_allocation |-> {raw_image}]

\* debug_assert!(alloc.offset() % requirements.alignment == 0);
\* debug_assert!(alloc.size() == requirements.size);
debug_asserts_pass(alloc, requirements) ==
    debug_assertions =>
        /\ alloc.offset % requirements.alignment = 0
        /\ alloc.size = requirements.size

\* What stays live when the allocator fails: raw_image goes out of scope.
alloc_failed_live(raw_image) == [images |-> {}, allocations |-> {}]

\* Mutant: the allocation handed back by the failed bind is leaked.
bind_failed_leaks(raw_image, memory) == [images |-> {}, allocations |-> {memory}]

\* What stays live when bind_memory_unchecked fails: map_err drops the raw
\* image and the allocation the failed bind handed back.
bind_failed_live(raw_image, memory) == [images |-> {}, allocations |-> {}]

\* The Ok(alloc) arm, the same in with_usage and new_with_exportable_fd.
bind_memory(c, raw_image, requirements, alloc) ==
    LET memory == Fresh(allocations)
        c1 == [c EXCEPT !.allocation = {alloc}, !.memory = {memory}]
    IN  IF ~debug_asserts_pass(alloc, requirements)
        THEN ReturnToCaller([Did(c1, "debug_assert") EXCEPT
                                !.result = Panic("debug assertion failed")],
                            {}, {}, {})
        ELSE LET c2 == Did(c1, "bind_memory_unchecked")
                 kept == bind_failed_live(raw_image, memory)
             IN  \/ ReturnToCaller(
                        [c2 EXCEPT !.result =
                            Err([variant |-> "OomError", cause |-> "OutOfDeviceMemory"])],
                        {}, kept.images, kept.allocations)
                 \/ ReturnToCaller(
                        [c2 EXCEPT !.result = Ok(raw_image)],
                        {StorageImage(c2, raw_image, memory, FALSE)},
                        {raw_image}, {memory})

\* Mutant: a failed allocation is tried a second time.
with_usage_retry(c, dimensions, format, usage, flags, queue_family_indices) ==
    IF ~assert_not_disjoint(flags)
    THEN ReturnToCaller([Did(c, "assert") EXCEPT
                            !.result = Panic("assertion failed: !flags.intersects(DISJOINT)")],
                        {}, {}, {})
    ELSE
    LET info == ImageCreateInfo(flags, dimensions, format, usage,
                                queue_family_indices, {})
        c1 == [Did(c, "RawImage::new") EXCEPT !.create_info = {info}]
        raw_image == Fresh(images)
    IN  \/ ReturnToCaller(
               [c1 EXCEPT !.result =
                   Err([variant |-> "FormatNotSupported", cause |-> ""])],
               {}, {}, {})
        \/ \E requirements \in RequirementInputs :
              LET c2 == [Did(c1, "memory_requirements") EXCEPT
                            !.image = {raw_image}, !.requirements = {requirements}]
                  c3 == [Did(c2, "allocate_unchecked") EXCEPT
                            !.request = {AllocationCreateInfo(requirements, raw_image)}]
                  c4 == Did(c3, "allocate_unchecked")
              IN  \/ \E err \in AllocationErrors :
                        ReturnToCaller(
                            [c4 EXCEPT !.result = Err(ImageErrorFrom(err))],
                            {}, {}, {})
                  \/ \E alloc \in AllocationAnswers(requirements) :
                        \/ bind_memory(c3, raw_image, requirements, alloc)
                        \/ bind_memory(c4, raw_image, requirements, alloc)

\* StorageImage::with_usage
with_usage(c, dimensions, format, usage, flags, queue_family_indices) ==
    IF ~assert_not_disjoint(flags)
    THEN ReturnToCaller([Did(c, "assert") EXCEPT
                            !.result = Panic("assertion failed: !flags.intersects(DISJOINT)")],
                        {}, {}, {})
    ELSE
    LET info == ImageCreateInfo(flags, dimensions, format, usage,
                                queue_family_indices, {})
        c1 == [Did(c, "RawImage::new") EXCEPT !.create_info = {info}]
        raw_image == Fresh(images)
    IN  \/ ReturnToCaller(
               [c1 EXCEPT !.result =
                   Err([variant |-> "FormatNotSupported", cause |-> ""])],
               {}, {}, {})
        \/ \E requirements \in RequirementInputs :
              LET c2 == [Did(c1, "memory_requirements") EXCEPT
                            !.image = {raw_image}, !.requirements = {requirements}]
                  c3 == [Did(c2, "allocate_unchecked") EXCEPT
                            !.request = {AllocationCreateInfo(requirements, raw_image)}]
              IN  \/ \E err \in AllocationErrors :
                        LET kept == alloc_failed_live(raw_image)
                        IN  ReturnToCaller(
                                [c3 EXCEPT !.result = Err(ImageErrorFrom(err))],
                                {}, kept.images, kept.allocations)
                  \/ \E alloc \in AllocationAnswers(requirements) :
                        bind_memory(c3, raw_image, requirements, alloc)

\* Mutant: only the depth aspect is looked at.
new_usage_depth_only(format) ==
    {"TRANSFER_SRC", "TRANSFER_DST", "SAMPLED", "STORAGE", "INPUT_ATTACHMENT"}
    \cup (IF aspects(format) \cap {"DEPTH"} # {}
          THEN {"DEPTH_STENCIL_ATTACHMENT"}
          ELSE {"COLOR_ATTACHMENT"})

\* The usage StorageImage::new asks for.
new_usage(format) ==
    {"TRANSFER_SRC", "TRANSFER_DST", "SAMPLED", "STORAGE", "INPUT_ATTACHMENT"}
    \cup (IF aspects(format) \cap {"DEPTH", "STENCIL"} # {}
          THEN {"DEPTH_STENCIL_ATTACHMENT"}
          ELSE {"COLOR_ATTACHMENT"})

\* StorageImage::new
new(c, dimensions, format, queue_family_indices) ==
    IF compression(format) # {}
    THEN Return([c EXCEPT !.result = Panic("explicit panic")], {}, {}, {})
    ELSE with_usage(c, dimensions, format, new_usage(format), {}, queue_family_indices)

\* The caller is between calls.
Idle == last.op = "none"

CanConstruct == Idle /\ Cardinality(resources) < MaxLive

New ==
    /\ CanConstruct
    /\ \E dimensions \in DimensionInputs, format \in FormatInputs, qfi \in QfiInputs :
          new(Start("new", Args(dimensions, format, {}, {}, qfi)),
              dimensions, format, qfi)

WithUsage ==
    /\ CanConstruct
    /\ \E dimensions \in DimensionInputs, format \in FormatInputs,
          usage \in UsageInputs, flags \in FlagInputs, qfi \in QfiInputs :
          with_usage(Start("with_usage", Args(dimensions, format, usage, flags, qfi)),
                     dimensions, format, usage, flags, qfi)

\* Mutant: the allocation is not tagged with the external handle type.
DedicatedRequest_untagged(memory_type_index, requirements, raw_image, handle_types) ==
    [call |-> "allocate_dedicated_unchecked", memory_type_index |-> memory_type_index,
     allocation_size |-> requirements.size, dedicated_allocation |-> {raw_image},
     export_handle_types |-> {}]

\* The size and the handle types asked of allocate_dedicated_unchecked.
DedicatedRequest(memory_type_index, requirements, raw_image, handle_types) ==
    [call |-> "allocate_dedicated_unchecked", memory_type_index |-> memory_type_index,
     allocation_size |-> requirements.size, dedicated_allocation |-> {raw_image},
     export_handle_types |-> handle_types]

ImageFormatInfo(flags, dimensions, format, usage) ==
    [flags |-> flags, format |-> format, image_type |-> dimensions.type,
     usage |-> usage, external_memory_handle_type |-> "OpaqueFd"]

\* StorageImage::new_with_exportable_fd
new_with_exportable_fd(c, dimensions, format, usage, flags, queue_family_indices) ==
    IF ~assert_not_disjoint(flags)
    THEN Return([Did(c, "assert") EXCEPT
                    !.result = Panic("assertion failed: !flags.intersects(DISJOINT)")],
                {}, {}, {})
    ELSE
    LET c0 == [Did(c, "image_format_properties") EXCEPT
                  !.query = {ImageFormatInfo(flags, dimensions, format, usage)}]
        external_memory_handle_types == {"OPAQUE_FD"}
        info == ImageCreateInfo(flags, dimensions, format, usage,
                                queue_family_indices, external_memory_handle_types)
        c1 == [Did(c0, "RawImage::new") EXCEPT !.create_info = {info}]
        raw_image == Fresh(images)
    IN  \/ \E unwrapped \in {"Err", "None"} :
              Return([c0 EXCEPT !.result = Panic("called unwrap on " \o unwrapped)],
                     {}, {}, {})
        \/ \E exportable \in BOOLEAN :
              IF ~exportable
              THEN Return([Did(c0, "assert") EXCEPT
                              !.exportable = {exportable},
                              !.result =
                              Panic("assertion failed: external_memory_properties.exportable")],
                          {}, {}, {})
              ELSE
              \/ Return([c1 EXCEPT !.exportable = {exportable}, !.result =
                            Err([variant |-> "FormatNotSupported", cause |-> ""])],
                        {}, {}, {})
              \/ \E requirements \in RequirementInputs,
                    device_local \in DeviceLocalInputs :
                    LET c2 == [Did(c1, "memory_requirements") EXCEPT
                                  !.exportable = {exportable},
                                  !.image = {raw_image},
                                  !.requirements = {requirements}]
                        found == find_memory_type_index(
                                     requirements.memory_type_bits, device_local)
                        c3 == [Did(c2, "find_memory_type_index") EXCEPT
                                  !.device_local = {device_local}]
                    IN  IF found = {}
                        THEN Return([c3 EXCEPT !.result =
                                        Panic("failed to find a suitable memory type")],
                                    {}, {}, {})
                        ELSE
                        LET memory_type_index == CHOOSE i \in found : TRUE
                            c4 == [Did(c3, "allocate_dedicated_unchecked") EXCEPT
                                      !.request = {DedicatedRequest(
                                          memory_type_index, requirements, raw_image,
                                          external_memory_handle_types)}]
                        IN  \/ \E err \in AllocationErrors :
                                  LET kept == alloc_failed_live(raw_image)
                                  IN  Return([c4 EXCEPT !.result = Err(ImageErrorFrom(err))],
                                             {}, kept.images, kept.allocations)
                            \/ \E alloc \in AllocationAnswers(requirements) :
                                  bind_memory(c4, raw_image, requirements, alloc)

NewWithExportableFd ==
    /\ CanConstruct
    /\ \E dimensions \in DimensionInputs, format \in FormatInputs,
          usage \in UsageInputs, flags \in FlagInputs, qfi \in QfiInputs :
          new_with_exportable_fd(
              Start("new_with_exportable_fd",
                    Args(dimensions, format, usage, flags, qfi)),
              dimensions, format, usage, flags, qfi)

\* Mutant: width and height are swapped.
general_purpose_image_view_swapped(c, queue_family_index, size, format, usage) ==
    LET dims == Dim2d(size[2], size[1], 1)
        flags == {}
    IN  with_usage(c, dims, format, usage, flags, <<queue_family_index>>)

\* StorageImage::general_purpose_image_view
general_purpose_image_view(c, queue_family_index, size, format, usage) ==
    LET dims == Dim2d(size[1], size[2], 1)
        flags == {}
    IN  with_usage(c, dims, format, usage, flags, <<queue_family_index>>)

GeneralPurposeImageView ==
    /\ CanConstruct
    /\ \E queue \in QueueFamilies, size \in SizeInputs, format \in FormatInputs,
          usage \in UsageInputs :
          general_purpose_image_view(
              Start("general_purpose_image_view", ViewArgs(queue, size, format, usage)),
              queue, size, format, usage)

-----------------------------------------------------------------------------
\* Operations on a bound image. They read the image and change nothing of it.

Answer(c) ==
    /\ last' = c
    /\ UNCHANGED <<debug_assertions, images, allocations, resources>>

\* DeviceMemory::export_fd(OpaqueFd): the memory must have been allocated
\* with that handle type.
export_fd(handle_types) ==
    IF "OPAQUE_FD" \in handle_types
    THEN {Ok(3), Err([variant |-> "DeviceMemoryError", cause |-> "OomError"])}
    ELSE {Err([variant |-> "DeviceMemoryError", cause |-> "HandleTypeNotSupported"])}

\* StorageImage::export_posix_fd: callable on any StorageImage.
export_posix_fd(self) ==
    \E r \in export_fd(self.handle_types) :
        Answer([Start("export_posix_fd", NoArgs) EXCEPT
                   !.self = {self}, !.memory = {self.memory}, !.result = r])

ExportPosixFd == Idle /\ \E self \in resources : export_posix_fd(self)

\* DeviceMemory::allocation_size: the size of the device memory block the
\* allocation lives in (the allocation itself, or the pool block around it).
allocation_size(memory) == {8, 64}

\* StorageImage::mem_size
mem_size(self) ==
    \E size \in allocation_size(self.memory) :
        Answer([Start("mem_size", NoArgs) EXCEPT
                   !.self = {self}, !.memory = {self.memory}, !.result = Ok(size)])

MemSize == Idle /\ \E self \in resources : mem_size(self)

\* Mutant: the image itself is left out of what is compared.
inner_without_image(self) ==
    [image |-> 0, first_layer |-> 0, num_layers |-> self.array_layers,
     first_mipmap_level |-> 0, num_mipmap_levels |-> 1]

\* ImageAccess::inner
inner(self) ==
    [image |-> self.image, first_layer |-> 0, num_layers |-> self.array_layers,
     first_mipmap_level |-> 0, num_mipmap_levels |-> 1]

\* PartialEq::eq
eq(self, other) == inner(self) = inner(other)

\* Hash::hash: what is fed to the hasher.
hash(self) ==
    LET i == inner(self)
    IN  <<i.image, i.first_layer, i.num_layers, i.first_mipmap_level,
          i.num_mipmap_levels>>

Compare ==
    /\ Idle
    /\ \E self \in resources, other \in resources :
          Answer([Start("eq", NoArgs) EXCEPT
                     !.self = {self, other},
                     !.answer = {[eq |-> eq(self, other),
                                  hash_eq |-> hash(self) = hash(other)]},
                     !.result = Ok(0)])

\* The last owner lets go of a StorageImage (or of the view that owns it):
\* the image is destroyed and its allocation freed.
Drop ==
    /\ Idle
    /\ \E self \in resources :
          /\ resources' = resources \ {self}
          /\ images' = images \ {self.image}
          /\ allocations' = allocations \ {self.memory}
          /\ UNCHANGED <<debug_assertions, last>>

\* The caller takes what the call returned and goes on.
Continue ==
    /\ ~Idle
    /\ last' = Start("none", NoArgs)
    /\ UNCHANGED <<debug_assertions, images, allocations, resources>>

Next ==
    \/ New
    \/ WithUsage
    \/ NewWithExportableFd
    \/ GeneralPurposeImageView
    \/ ExportPosixFd
    \/ MemSize
    \/ Compare
    \/ Drop
    \/ Continue

Spec == Init /\ [][Next]_vars

-----------------------------------------------------------------------------
\* Properties.

Constructors ==
    {"new", "with_usage", "new_with_exportable_fd", "general_purpose_image_view"}

Range(f) == {f[i] : i \in DOMAIN f}

BaselineUsage ==
    {"TRANSFER_SRC", "TRANSFER_DST", "SAMPLED", "STORAGE", "INPUT_ATTACHMENT"}

NoCollaboratorCalled ==
    /\ last.query = {}
    /\ last.create_info = {}
    /\ last.requirements = {}
    /\ last.request = {}
    /\ last.image = {}
    /\ last.memory = {}

\* C1: StorageImage::new of a non-compressed format asks for an image whose
\* usage is exactly the five baseline usages plus DEPTH_STENCIL_ATTACHMENT
\* for a depth or stencil format and COLOR_ATTACHMENT otherwise (exactly one
\* of the two), with empty creation flags, whatever the dimensions and the
\* queue-family list.
C1_NewRequestsDefaultUsage ==
    (last.op = "new" /\ last.args.format # "BC7_UNORM_BLOCK") =>
        /\ last.create_info # {}
        /\ \A info \in last.create_info :
              LET attachment ==
                      info.usage \cap {"DEPTH_STENCIL_ATTACHMENT", "COLOR_ATTACHMENT"}
              IN  /\ info.usage \ attachment = BaselineUsage
                  /\ attachment =
                        IF last.args.format \in {"D16_UNORM", "S8_UINT"}
                        THEN {"DEPTH_STENCIL_ATTACHMENT"}
                        ELSE {"COLOR_ATTACHMENT"}
                  /\ info.flags = {}
                  /\ info.format = last.args.format
                  /\ info.dimensions = last.args.dimensions

C1_Witness ==
    /\ last.op = "new"
    /\ last.result.kind = "Ok"
    /\ last.args.format = "S8_UINT"
    /\ \E r \in resources : r.image = last.result.value

\* C2: with_usage and new_with_exportable_fd create the image with
\* Concurrent sharing exactly when the queue-family index list holds at
\* least 2 distinct indices, and with Exclusive sharing otherwise.
C2_ConcurrentIffTwoDistinct ==
    (last.op \in {"with_usage", "new_with_exportable_fd"}) =>
        \A info \in last.create_info :
            /\ info.sharing.mode \in {"Concurrent", "Exclusive"}
            /\ info.sharing.mode = "Concurrent" <=>
                  Cardinality(Range(last.args.queue_family_indices)) >= 2

\* C3: a construction with a compressed format, through any constructor,
\* creates no raw image, calls no allocator and returns no resource.
C3_CompressedRejected ==
    (last.op \in Constructors /\ last.args.format = "BC7_UNORM_BLOCK") =>
        /\ last.image = {}
        /\ last.request = {}
        /\ last.result.kind # "Ok"

\* C4: with DISJOINT among the creation flags, with_usage and
\* new_with_exportable_fd fail their assertion before any device query,
\* raw image creation, allocator call or bind; no image created with
\* DISJOINT is ever bound.
C4_DisjointRejected ==
    /\ (last.op \in {"with_usage", "new_with_exportable_fd"}
            /\ "DISJOINT" \in last.args.flags) =>
          /\ last.result.kind = "Panic"
          /\ last.events = <<"assert">>
          /\ NoCollaboratorCalled
    /\ (last.op \in Constructors /\ last.result.kind = "Ok") =>
          \A info \in last.create_info : "DISJOINT" \notin info.flags

C4_Witness ==
    /\ last.op = "new_with_exportable_fd"
    /\ "DISJOINT" \in last.args.flags
    /\ last.result.kind = "Panic"

\* The collaborator call a construction ended on.
LastEvent == IF last.events = <<>> THEN "" ELSE last.events[Len(last.events)]

AllocatorCalls == {"allocate_unchecked", "allocate_dedicated_unchecked"}

\* C5: a construction that fails leaves nothing behind. When the allocator
\* fails the caller gets AllocError with the allocator's cause and the raw
\* image is released; when bind_memory fails the allocation and the raw
\* image are both released; no resource is returned, and every live raw
\* image and allocation belongs to a StorageImage the caller owns.
C5_FailedConstructionLeavesNothing ==
    /\ images = {r.image : r \in resources}
    /\ allocations = {r.memory : r \in resources}
    /\ (last.op \in Constructors /\ LastEvent \in AllocatorCalls) =>
          /\ last.result.kind = "Err"
          /\ last.result.error.variant = "AllocError"
          /\ last.result.error.cause \in AllocationErrors
          /\ last.image # {}
          /\ last.image \cap images = {}
          /\ \A r \in resources : r.image \notin last.image
    /\ (last.op \in Constructors /\ LastEvent = "bind_memory_unchecked"
            /\ last.result.kind # "Ok") =>
          /\ last.result.kind = "Err"
          /\ last.image # {} /\ last.memory # {}
          /\ last.image \cap images = {}
          /\ last.memory \cap allocations = {}
          /\ \A r \in resources : r.image \notin last.image /\ r.memory \notin last.memory

C5_Witness ==
    /\ last.op = "new_with_exportable_fd"
    /\ LastEvent = "bind_memory_unchecked"
    /\ last.result.kind = "Err"
    /\ resources # {}

\* C6: every StorageImage that gets bound holds an allocation whose offset
\* is a multiple of the required alignment and whose size is the required
\* size; an allocation that is not so stops the constructor before the bind.
C6_BoundAllocationFits ==
    (last.op \in Constructors /\ "bind_memory_unchecked" \in Range(last.events)) =>
        \A alloc \in last.allocation, req \in last.requirements :
            /\ alloc.offset % req.alignment = 0
            /\ alloc.size = req.size

\* C7: general_purpose_image_view returns an error of image construction
\* unchanged and without trying to create a view; it returns every error of
\* view creation wrapped in DirectImageViewCreationFailed, and an image
\* whose usage has nothing a view needs gives
\* DirectImageViewCreationFailed(ImageMissingUsage).
C7_ViewErrorsAreDistinguished ==
    (last.op = "general_purpose_image_view") =>
        LET viewTried == "ImageView::new_default" \in Range(last.events)
            bound == "bind_memory_unchecked" \in Range(last.events)
        IN  /\ viewTried => (bound /\ LastEvent = "ImageView::new_default")
            /\ (viewTried /\ last.result.kind # "Ok") =>
                  /\ last.result.kind = "Err"
                  /\ last.result.error.variant = "DirectImageViewCreationFailed"
            /\ (viewTried /\ last.args.usage \cap ViewUsages = {}) =>
                  last.result =
                      Err([variant |-> "DirectImageViewCreationFailed",
                           cause |-> "ImageMissingUsage"])
            /\ ~viewTried =>
                  /\ last.result.kind # "Ok"
                  /\ last.result.kind = "Err" =>
                        last.result.error.variant \in
                            {"FormatNotSupported", "AllocError", "OomError"}
                  /\ LastEvent \in AllocatorCalls =>
                        last.result.error.variant = "AllocError"

C7_Witness ==
    /\ last.op = "general_purpose_image_view"
    /\ last.args.usage = {"TRANSFER_SRC"}
    /\ last.args.format = "R8G8B8A8_UNORM"
    /\ last.args.size = <<32, 32>>
    /\ last.result = Err([variant |-> "DirectImageViewCreationFailed",
                          cause |-> "ImageMissingUsage"])

\* C8: when general_purpose_image_view succeeds, the image under the view
\* was created with exactly the requested usage, as a 2D image of the
\* requested width and height with 1 array layer, with empty creation
\* flags and Exclusive sharing.
C8_ViewImageIsAsRequested ==
    (last.op = "general_purpose_image_view" /\ last.result.kind = "Ok") =>
        /\ last.create_info # {}
        /\ \A info \in last.create_info :
              /\ info.usage = last.args.usage
              /\ info.format = last.args.format
              /\ info.dimensions =
                    [type |-> "Dim2d", width |-> last.args.size[1],
                     height |-> last.args.size[2], array_layers |-> 1]
              /\ info.flags = {}
              /\ info.sharing.mode = "Exclusive"
        /\ \E r \in resources :
              /\ r.image = last.result.value
              /\ r.view
              /\ r.array_layers = 1

C8_Witness ==
    /\ last.op = "general_purpose_image_view"
    /\ last.result.kind = "Ok"
    /\ last.args.size = <<8, 4>>
    /\ last.args.usage = {"TRANSFER_SRC", "TRANSFER_DST", "COLOR_ATTACHMENT"}

\* C9: export_posix_fd is only ever called on a StorageImage that
\* new_with_exportable_fd built (the one constructor that asks for memory
\* with the OPAQUE_FD handle type).
C9_ExportOnlyOnExportable ==
    (last.op = "export_posix_fd") =>
        \A self \in last.self : self.handle_types = {"OPAQUE_FD"} /\ ~self.view

\* C10: two StorageImages are equal, and feed the hasher the same, exactly
\* when they are the same raw image; separately constructed images are
\* never equal, however alike; equality is reflexive and symmetric, and
\* equal images hash alike.
C10_EqualityIsIdentity ==
    /\ \A a \in resources : eq(a, a)
    /\ \A a \in resources : \A b \in resources \ {a} :
          LET same == a.image = b.image
              equal == eq(a, b)
              hashed == hash(a) = hash(b)
          IN  /\ equal <=> same
              /\ hashed <=> same
              /\ equal => hashed
              /\ equal <=> eq(b, a)
              /\ ~equal
    /\ (last.op = "eq") =>
          \A answer \in last.answer :
              /\ answer.eq <=> Cardinality(last.self) = 1
              /\ answer.hash_eq <=> Cardinality(last.self) = 1

C10_Witness ==
    /\ last.op = "eq"
    /\ \E a \in last.self, b \in last.self :
          /\ a # b
          /\ a.array_layers = b.array_layers
          /\ a.view = b.view
          /\ a.handle_types = b.handle_types
    /\ \A answer \in last.answer : ~answer.eq

\* C11: new_with_exportable_fd first asks the device for the image format
\* properties with the OpaqueFd handle type. When the answer is not
\* exportable the call panics with no raw image created and no allocator
\* call. Only an exportable answer leads to RawImage::new and then to one
\* dedicated allocation request of exactly requirements.size, at the first
\* device-local memory type among requirements.memory_type_bits, tagged
\* OPAQUE_FD; when no such memory type exists the call panics and no
\* allocation is requested.
C11_ExportableOrFatal ==
    (last.op = "new_with_exportable_fd" /\ "DISJOINT" \notin last.args.flags) =>
        LET called == Range(last.events)
            allocatorCalls ==
                {i \in DOMAIN last.events : last.events[i] \in AllocatorCalls}
        IN  /\ last.events[1] = "image_format_properties"
            /\ \A q \in last.query :
                  /\ q.external_memory_handle_type = "OpaqueFd"
                  /\ q.format = last.args.format
                  /\ q.usage = last.args.usage
                  /\ q.flags = last.args.flags
            /\ last.query # {}
            /\ last.exportable # {TRUE} =>
                  /\ last.result.kind = "Panic"
                  /\ called \subseteq {"image_format_properties", "assert"}
                  /\ last.create_info = {} /\ last.image = {}
                  /\ last.request = {} /\ last.memory = {}
            /\ "RawImage::new" \in called => last.exportable = {TRUE}
            /\ \A info \in last.create_info :
                  info.external_memory_handle_types = {"OPAQUE_FD"}
            /\ "allocate_unchecked" \notin called
            /\ Cardinality(allocatorCalls) <= 1
            /\ \A rq \in last.request, req \in last.requirements,
                  dl \in last.device_local :
                  /\ rq.call = "allocate_dedicated_unchecked"
                  /\ rq.allocation_size = req.size
                  /\ rq.export_handle_types = {"OPAQUE_FD"}
                  /\ rq.dedicated_allocation = last.image
                  /\ rq.memory_type_index \in req.memory_type_bits \cap dl
                  /\ \A i \in req.memory_type_bits \cap dl : rq.memory_type_index <= i
            /\ last.request # {} =>
                  (last.requirements # {} /\ last.device_local # {}
                      /\ allocatorCalls # {})
            /\ \A req \in last.requirements, dl \in last.device_local :
                  req.memory_type_bits \cap dl = {} =>
                      /\ last.result.kind = "Panic"
                      /\ LastEvent = "find_memory_type_index"
                      /\ last.request = {} /\ last.memory = {}
                      /\ last.image \cap images = {}

C11_Witness ==
    /\ last.op = "new_with_exportable_fd"
    /\ last.exportable = {TRUE}
    /\ last.device_local = {{1}}
    /\ last.result.kind = "Ok"
    /\ \E rq \in last.request : rq.memory_type_index = 1

\* The steps of a construction that acquire or bind something, in the
\* order they were taken.
ConstructionSteps ==
    {"RawImage::new", "memory_requirements", "bind_memory_unchecked"}
        \cup AllocatorCalls

IsConstructionStep(e) == e \in ConstructionSteps

StepsTaken == SelectSeq(last.events, IsConstructionStep)

IsPrefix(s, t) == Len(s) <= Len(t) /\ \A i \in 1..Len(s) : s[i] = t[i]

\* What every state shows of the most recent call and of the live images.
BoundOnceInOrder ==
    /\ \A a \in resources : \A b \in resources \ {a} :
          a.image # b.image /\ a.memory # b.memory
    /\ \A r \in resources : r.image \in images /\ r.memory \in allocations
    /\ (last.op \in Constructors) =>
          /\ \/ IsPrefix(StepsTaken,
                         <<"RawImage::new", "memory_requirements",
                           "allocate_unchecked", "bind_memory_unchecked">>)
             \/ IsPrefix(StepsTaken,
                         <<"RawImage::new", "memory_requirements",
                           "allocate_dedicated_unchecked", "bind_memory_unchecked">>)
          /\ "bind_memory_unchecked" \in Range(last.events) =>
                (last.allocation # {} /\ last.memory # {})
          /\ (last.result.kind = "Err" /\ last.result.error.variant = "AllocError") =>
                (LastEvent \in AllocatorCalls /\ last.allocation = {})
          /\ last.result.kind = "Ok" =>
                /\ "bind_memory_unchecked" \in Range(last.events)
                /\ \E r \in resources :
                      {r.image} = last.image /\ {r.memory} = last.memory
    /\ (last.op \in {"export_posix_fd", "mem_size", "eq"}) =>
          /\ StepsTaken = <<>>
          /\ last.image = {} /\ last.allocation = {} /\ last.request = {}

\* What every step keeps: a bound image stays bound to its allocation until
\* it is dropped, and only a constructor binds.
BindingKept ==
    /\ \A r \in resources :
          \/ r \in resources'
          \/ r.image \notin images' /\ r.memory \notin allocations'
    /\ (last'.op \notin Constructors) =>
          /\ resources' \subseteq resources
          /\ images' \subseteq images
          /\ allocations' \subseteq allocations
    /\ (last'.op \in {"export_posix_fd", "mem_size", "eq"}) =>
          UNCHANGED <<resources, images, allocations>>
    /\ Cardinality(resources' \ resources) <= 1
    /\ \A r \in resources' \ resources :
          r.image \notin images /\ r.memory \notin allocations

\* C12: each raw image is bound at most once and each allocation to at most
\* one image; a construction takes its steps in the order raw-image
\* creation, memory-requirement query, allocator call, bind, calls the
\* allocator at most once and binds only after that call succeeded; no
\* operation on a bound image allocates, binds or changes its binding.
C12_BoundOnceInOrder == [](BoundOnceInOrder) /\ [][BindingKept]_vars

C12_Witness ==
    /\ last.op = "export_posix_fd"
    /\ Cardinality(resources) = 2
    /\ \E r \in resources : r.handle_types = {"OPAQUE_FD"}
    /\ \E r \in resources : r.view

====
